---- MODULE Spec2Model ----
(***************************************************************************)
(* corona_sir.py: fit of the SIR model to observed case numbers.           *)
(*                                                                         *)
(* Numbers.  The script computes in IEEE doubles; the model computes in    *)
(* integers.  Products, sums and differences are exact, the quotient x/N   *)
(* of sir_ode is rounded (toward zero, sign-symmetric as IEEE division     *)
(* is), a division by zero gives a non-finite derivative, and a value      *)
(* whose magnitude exceeds FloatMax has overflowed to inf.                 *)
(*                                                                         *)
(* Libraries.  scipy.integrate.solve_ivp is a one-step explicit method     *)
(* that calls the right-hand side sir_ode and samples the solution on      *)
(* t_eval (unit steps here); a step that meets a non-finite value fails,   *)
(* and solve_ivp then returns, with status -1, the samples made so far.    *)
(* scipy.optimize.minimize (Nelder-Mead, no                                *)
(* bounds) is a black box that evaluates the objective at points of its    *)
(* own choosing, and either declares convergence on the best point it      *)
(* has evaluated or exhausts maxiter.                                      *)
(***************************************************************************)
EXTENDS Integers, Sequences, FiniteSets, TLC

\* ---- bounds of the model ------------------------------------------------
MaxLen == 2        \* longest observed series read from the file
MaxCase == 1       \* largest case number in the file
MaxIter == 2       \* iteration budget of the minimizer (maxiter, 20000 in the script)
MaxTrialS == 1     \* trial values of S range over -MaxTrialS..MaxTrialS
PopScale == 1000   \* the "big number" of iniguess (1e9 in the script)
FloatMax == 2000   \* largest magnitude of a finite number
MaxT == 5          \* longest horizon of a direct solveode call
MaxR0 == 1         \* largest R0 of a direct solveode call

\* ---- program constants --------------------------------------------------
betaGuess == 10
gammaGuess == 10
ExitNoData == 3
ExitNoConvergence == 2

VARIABLES
    pc,        \* position of the script
    C,         \* observed series returned by loadData
    parmArray, \* hstack((asarray([I0,R0]),C)) of parmest
    nit,       \* iterations of the minimizer
    lastEval,  \* the latest call of optSolveOde made by the minimizer
    best,      \* the best call so far (lowest deviation): optRes.x, optRes.fun
    results,   \* dict returned by parmest
    printed,   \* pp.pprint(results) has run
    proj,      \* (t, S, I, R) of the forward projection
    plots,     \* figures created
    exitCode,  \* status of a SystemExit, once raised
    odeArgs,   \* arguments of a direct solveode call
    odeRet     \* its outcome

vars == <<pc, C, parmArray, nit, lastEval, best, results, printed, proj,
          plots, exitCode, odeArgs, odeRet>>

\* ---- arithmetic ---------------------------------------------------------
Abs(x) == IF x < 0 THEN -x ELSE x

\* x / y of two finite doubles, y # 0
TrueDiv(x, y) ==
    LET q == Abs(x) \div Abs(y)
    IN  IF (x < 0) # (y < 0) THEN -q ELSE q

\* a derivative vector with inf or nan entries
NonFinite == <<>>

IsFinite(d) == d # NonFinite

\* the element of a one-element set; Only({e(v) : v \in {x}}) is e(x) with
\* x computed once
Only(S) == CHOOSE v \in S : TRUE

\* range(n)
Range(n) == [i \in 1..(IF n > 0 THEN n ELSE 0) |-> i - 1]

RECURSIVE SumSeq(_)
SumSeq(s) == IF Len(s) = 0 THEN 0 ELSE Head(s) + SumSeq(Tail(s))

\* sqrt of a non-negative number, rounded down: the root lies in lo..hi
RECURSIVE SqrtIn(_, _, _)
SqrtIn(n, lo, hi) ==
    IF lo >= hi
    THEN lo
    ELSE LET mid == (lo + hi + 1) \div 2
         IN  IF mid * mid <= n THEN SqrtIn(n, mid, hi) ELSE SqrtIn(n, lo, mid - 1)

Sqrt(n) == SqrtIn(n, 0, IF n < 46340 THEN n ELSE 46340)

\* numpy.linalg.norm of a 1-d array
norm(v) == Sqrt(SumSeq([i \in 1..Len(v) |-> v[i] * v[i]]))

\* sir_ode with the recovery term of dI added instead of subtracted
sir_ode_signslip(t, SIR, beta, gamma) ==
    LET S == SIR[1]
        I == SIR[2]
        R == SIR[3]
        N == S + I + R
    IN  IF N = 0
        THEN NonFinite
        ELSE LET dS == TrueDiv((-beta) * I * S, N)
                 dI == TrueDiv(beta * S * I, N) + gamma * I
                 dR == gamma * I
             IN  <<dS, dI, dR>>

\* sir_ode with the infection term beta*S/N, the factor I left out
sir_ode_noI(t, SIR, beta, gamma) ==
    LET S == SIR[1]
        I == SIR[2]
        R == SIR[3]
        N == S + I + R
    IN  IF N = 0
        THEN NonFinite
        ELSE LET dS == TrueDiv((-beta) * S, N)
                 dI == TrueDiv(beta * S, N) - gamma * I
                 dR == gamma * I
             IN  <<dS, dI, dR>>

\* ---- sir_ode ------------------------------------------------------------
sir_ode(t, SIR, beta, gamma) ==
    LET S == SIR[1]
        I == SIR[2]
        R == SIR[3]
        N == S + I + R
    IN  IF N = 0
        THEN NonFinite
        ELSE LET dS == TrueDiv((-beta) * I * S, N)
                 dI == TrueDiv(beta * S * I, N) - gamma * I
                 dR == gamma * I
             IN  <<dS, dI, dR>>

\* ---- solve_ivp ----------------------------------------------------------
\* one step from y at time t: the new state, or NonFinite if the step fails
rk_step(t, y, args) ==
    Only({IF ~IsFinite(f)
          THEN NonFinite
          ELSE Only({IF \E i \in 1..3 : Abs(y_new[i]) > FloatMax
                     THEN NonFinite
                     ELSE y_new :
                     y_new \in {[i \in 1..3 |-> y[i] + f[i]]}}) :
          f \in {sir_ode(t, y, args[1], args[2])}})

\* the states y(t0), y(t0+1), ... reached by the steps that succeed
RECURSIVE Path(_, _, _, _)
Path(t, y, t_bound, args) ==
    IF t >= t_bound
    THEN <<y>>
    ELSE Only({IF ~IsFinite(y_new)
               THEN <<y>>
               ELSE <<y>> \o Path(t + 1, y_new, t_bound, args) :
               y_new \in {rk_step(t, y, args)}})

\* the result of solve_ivp, given the states that the steps have reached
OdeResult(path, t_span, t_eval) ==
    LET reached == t_span[1] + Len(path) - 1
        ts == IF reached = t_span[1]
              THEN <<>>
              ELSE SelectSeq(t_eval, LAMBDA t : t <= reached)
        row(k) == [i \in 1..Len(ts) |-> path[ts[i] - t_span[1] + 1][k]]
    IN  [status |-> IF reached >= t_span[2] THEN 0 ELSE -1,
         t |-> ts,
         y |-> IF Len(ts) = 0 THEN <<>> ELSE <<row(1), row(2), row(3)>>]

solve_ivp(t_span, y0, args, t_eval) ==
    Only({OdeResult(path, t_span, t_eval) :
          path \in {Path(t_span[1], y0, t_span[2], args)}})

\* ---- solveode -----------------------------------------------------------
Raised(e) == [exc |-> e, t |-> <<>>, S |-> <<>>, I |-> <<>>, R |-> <<>>]

solveode(SIR, bgt) ==
    LET S0 == SIR[1]
        I0 == SIR[2]
        R0 == SIR[3]
        beta == bgt[1]
        gamma == bgt[2]
        tmax == bgt[3]
    IN  Only({IF Len(sir_sol.y) = 0
              THEN Raised("IndexError")
              ELSE [exc |-> "none", t |-> sir_sol.t,
                    S |-> sir_sol.y[1], I |-> sir_sol.y[2], R |-> sir_sol.y[3]] :
              sir_sol \in {solve_ivp(<<0, tmax>>, <<S0, I0, R0>>, <<beta, gamma>>,
                                     Range(tmax))}})

\* loadData without the test for an empty selection
loadData_nocheck(rows) == [exit |-> {}, C |-> rows]

\* ---- loadData -----------------------------------------------------------
\* rows: the 'cases' column of the rows of the file whose region matches
loadData(rows) ==
    IF Len(rows) = 0
    THEN [exit |-> {ExitNoData}, C |-> <<>>]
    ELSE [exit |-> {}, C |-> rows]

\* ---- iniguess -----------------------------------------------------------
iniguess(firstCaseCount) ==
    LET SGuess == PopScale - firstCaseCount
        I0 == firstCaseCount
        R0 == 0
    IN  <<betaGuess, gammaGuess, SGuess, I0, R0>>

\* numpy.hstack of two 1-d arrays
hstack(a, b) == a \o b

\* optSolveOde with the deviation taken against I alone
optSolveOde_noR(bgS, IRC) ==
    LET obs == SubSeq(IRC, 3, Len(IRC))
        tmax == Len(obs)
        SIR == <<bgS[3], IRC[1], IRC[2]>>
        bgt == <<bgS[1], bgS[2], tmax>>
    IN  Only({LET exc == IF sol.exc # "none" THEN sol.exc
                         ELSE IF Len(sol.I) # Len(obs) THEN "ValueError"
                         ELSE "none"
                  deviation == IF exc # "none" THEN 0
                               ELSE norm([i \in 1..Len(obs) |-> obs[i] - sol.I[i]])
              IN  [exc |-> exc, fun |-> deviation, x |-> bgS,
                   SIR |-> SIR, bgt |-> bgt, obs |-> obs, traj |-> sol] :
              sol \in {solveode(SIR, bgt)}})

\* optSolveOde with I0 and R0 unpacked in the wrong order
optSolveOde_swapIR(bgS, IRC) ==
    LET obs == SubSeq(IRC, 3, Len(IRC))
        tmax == Len(obs)
        SIR == <<bgS[3], IRC[2], IRC[1]>>
        bgt == <<bgS[1], bgS[2], tmax>>
    IN  Only({LET exc == IF sol.exc # "none" THEN sol.exc
                         ELSE IF Len(sol.I) # Len(obs) THEN "ValueError"
                         ELSE "none"
                  deviation == IF exc # "none" THEN 0
                               ELSE norm([i \in 1..Len(obs) |-> obs[i] - (sol.I[i] + sol.R[i])])
              IN  [exc |-> exc, fun |-> deviation, x |-> bgS,
                   SIR |-> SIR, bgt |-> bgt, obs |-> obs, traj |-> sol] :
              sol \in {solveode(SIR, bgt)}})

\* ---- optSolveOde --------------------------------------------------------
\* The value returned is fun; the other fields record the call made to
\* solveode and what it returned.
optSolveOde(bgS, IRC) ==
    LET obs == SubSeq(IRC, 3, Len(IRC))
        tmax == Len(obs)
        SIR == <<bgS[3], IRC[1], IRC[2]>>
        bgt == <<bgS[1], bgS[2], tmax>>
    IN  Only({LET exc == IF sol.exc # "none" THEN sol.exc
                         ELSE IF Len(sol.I) # Len(obs) THEN "ValueError"
                         ELSE "none"
                  deviation == IF exc # "none" THEN 0
                               ELSE norm([i \in 1..Len(obs) |-> obs[i] - (sol.I[i] + sol.R[i])])
              IN  [exc |-> exc, fun |-> deviation, x |-> bgS,
                   SIR |-> SIR, bgt |-> bgt, obs |-> obs, traj |-> sol] :
              sol \in {solveode(SIR, bgt)}})

\* ---- the script ---------------------------------------------------------
Series == UNION {[1..n -> 0..MaxCase] : n \in 0..MaxLen}

\* The values of beta and gamma that the minimizer tries, besides the
\* initial guess: a rate per time step that is negative, zero or positive.
\* (The unit step of the integrator follows the solution for rates of
\* magnitude up to 1.)
TrialRates == {-1, 0, 1}

\* minimize is called without bounds on beta, gamma and S
TrialPoints == TrialRates \X TrialRates \X (-MaxTrialS..MaxTrialS)

NoOdeArgs == [SIR |-> <<0, 0, 0>>, bgt |-> <<0, 0, 0>>]

\* the arguments of a solveode call made from outside the script
OdeInputs ==
    [SIR : (-MaxTrialS..MaxTrialS) \X (0..MaxCase) \X (0..MaxR0),
     bgt : TrialRates \X TrialRates \X (1..MaxT)]

\* Either the script is run (pc = "start"), or the module is imported and
\* solveode is called (pc = "call").
Init ==
    /\ \/ pc = "start" /\ odeArgs = NoOdeArgs
       \/ pc = "call" /\ odeArgs \in OdeInputs
    /\ C = <<>>
    /\ parmArray = <<>>
    /\ nit = 0
    /\ lastEval = {}
    /\ best = {}
    /\ results = {}
    /\ printed = FALSE
    /\ proj = {}
    /\ plots = {}
    /\ exitCode = {}
    /\ odeRet = {}

\* C = loadData(region)
LoadData(rows) ==
    /\ pc = "start"
    /\ LET r == loadData(rows)
       IN  /\ C' = r.C
           /\ exitCode' = r.exit
           /\ pc' = IF r.exit = {} THEN "loaded" ELSE "exited"
    /\ UNCHANGED <<parmArray, nit, lastEval, best, results, printed, proj,
                   plots, odeArgs, odeRet>>

\* parmest up to the first evaluation of the objective, at the initial guess
ParmestStart ==
    /\ pc = "loaded"
    /\ IF Len(C) = 0
       THEN /\ pc' = "raised"
            /\ UNCHANGED <<parmArray, lastEval, best>>
       ELSE LET firstCaseCount == C[1]
                g == iniguess(firstCaseCount)
                pa == hstack(<<g[4], g[5]>>, C)
            IN  \E e \in {optSolveOde(<<g[1], g[2], g[3]>>, pa)} :
                    /\ parmArray' = pa
                    /\ lastEval' = {e}
                    /\ IF e.exc = "none"
                       THEN pc' = "minimize" /\ best' = {e}
                       ELSE pc' = "raised" /\ best' = best
    /\ nit' = 0
    /\ UNCHANGED <<C, results, printed, proj, plots, exitCode, odeArgs, odeRet>>

\* one iteration of the minimizer: the objective is evaluated at a point
\* of the minimizer's choosing
MinimizeIter(x) ==
    /\ pc = "minimize"
    /\ nit < MaxIter
    /\ \E e \in {optSolveOde(x, parmArray)} :
           /\ lastEval' = {e}
           /\ IF e.exc = "none"
              THEN /\ pc' = "minimize"
                   /\ best' = IF \E b \in best : e.fun < b.fun THEN {e} ELSE best
              ELSE /\ pc' = "raised"
                   /\ best' = best
    /\ nit' = nit + 1
    /\ UNCHANGED <<C, parmArray, results, printed, proj, plots, exitCode,
                   odeArgs, odeRet>>

\* optRes.success: parmest returns the dict
ParmestReturn ==
    /\ pc = "minimize"
    /\ nit < MaxIter
    /\ results' = {[beta |-> b.x[1], gamma |-> b.x[2], S |-> b.x[3],
                    I0 |-> parmArray[1], R0 |-> parmArray[2]] : b \in best}
    /\ pc' = "fitted"
    /\ UNCHANGED <<C, parmArray, nit, lastEval, best, printed, proj, plots,
                   exitCode, odeArgs, odeRet>>

\* parmest returning the best point found when the minimizer has failed
ParmestFail_bestEffort ==
    /\ pc = "minimize"
    /\ nit >= MaxIter
    /\ results' = {[beta |-> b.x[1], gamma |-> b.x[2], S |-> b.x[3],
                    I0 |-> parmArray[1], R0 |-> parmArray[2]] : b \in best}
    /\ pc' = "fitted"
    /\ UNCHANGED <<C, parmArray, nit, lastEval, best, printed, proj, plots,
                   exitCode, odeArgs, odeRet>>

\* not optRes.success: raise SystemExit(2)
ParmestFail ==
    /\ pc = "minimize"
    /\ nit >= MaxIter
    /\ exitCode' = {ExitNoConvergence}
    /\ pc' = "exited"
    /\ UNCHANGED <<C, parmArray, nit, lastEval, best, results, printed, proj,
                   plots, odeArgs, odeRet>>

\* pp.pprint(results)
PrintResults ==
    /\ pc = "fitted"
    /\ printed' = TRUE
    /\ pc' = "printed"
    /\ UNCHANGED <<C, parmArray, nit, lastEval, best, results, proj, plots,
                   exitCode, odeArgs, odeRet>>

\* the forward projection with beta and gamma passed in the wrong order
ForwardSim_swapRates ==
    /\ pc = "printed"
    /\ \E r \in results :
          LET tmax == 2 * Len(C)
          IN  \E sol \in {solveode(<<r.S, r.I0, r.R0>>, <<r.gamma, r.beta, tmax>>)} :
                  /\ proj' = {sol}
                  /\ pc' = IF sol.exc = "none" THEN "simulated" ELSE "raised"
    /\ UNCHANGED <<C, parmArray, nit, lastEval, best, results, printed, plots,
                   exitCode, odeArgs, odeRet>>

\* tmax = 2*len(C); (t, S, I, R) = solveode(...)
ForwardSim ==
    /\ pc = "printed"
    /\ \E r \in results :
          LET tmax == 2 * Len(C)
          IN  \E sol \in {solveode(<<r.S, r.I0, r.R0>>, <<r.beta, r.gamma, tmax>>)} :
                  /\ proj' = {sol}
                  /\ pc' = IF sol.exc = "none" THEN "simulated" ELSE "raised"
    /\ UNCHANGED <<C, parmArray, nit, lastEval, best, results, printed, plots,
                   exitCode, odeArgs, odeRet>>

\* plot_SIR(t, S, I, R)
PlotSIR ==
    /\ pc = "simulated"
    /\ plots' = plots \cup {"SIR"}
    /\ pc' = "plot1"
    /\ UNCHANGED <<C, parmArray, nit, lastEval, best, results, printed, proj,
                   exitCode, odeArgs, odeRet>>

\* plot_goodness_of_fit(t, S, I, R, range(len(C)), C); plt.show()
PlotGoodnessOfFit ==
    /\ pc = "plot1"
    /\ plots' = plots \cup {"goodness_of_fit"}
    /\ pc' = "done"
    /\ UNCHANGED <<C, parmArray, nit, lastEval, best, results, printed, proj,
                   exitCode, odeArgs, odeRet>>

\* solveode(SIR, bgt), called from outside the script
CallSolveode ==
    /\ pc = "call"
    /\ \E sol \in {solveode(odeArgs.SIR, odeArgs.bgt)} :
           /\ odeRet' = {sol}
           /\ pc' = IF sol.exc = "none" THEN "returned" ELSE "call_raised"
    /\ UNCHANGED <<C, parmArray, nit, lastEval, best, results, printed, proj,
                   plots, exitCode, odeArgs>>

Next ==
    \/ \E rows \in Series : LoadData(rows)
    \/ ParmestStart
    \/ \E x \in TrialPoints : MinimizeIter(x)
    \/ ParmestReturn
    \/ ParmestFail
    \/ PrintResults
    \/ ForwardSim
    \/ PlotSIR
    \/ PlotGoodnessOfFit
    \/ CallSolveode

Spec == Init /\ [][Next]_vars

\* ---- properties ---------------------------------------------------------
\* every trajectory that a call of solveode has returned: the one of the
\* latest objective evaluation, the forward projection, the direct call
Returned(sol) == sol.exc = "none"

Trajectories ==
    {e.traj : e \in {e \in lastEval : Returned(e.traj)}}
        \cup {sol \in proj : Returned(sol)}
        \cup {sol \in odeRet : Returned(sol)}

\* the calls <<SIR, bgt, sol>> of solveode that have returned
Calls ==
    {<<e.SIR, e.bgt, e.traj>> : e \in {e \in lastEval : Returned(e.traj)}}
        \cup {<<<<r.S, r.I0, r.R0>>, <<r.beta, r.gamma, 2 * Len(C)>>, sol>> :
                r \in results, sol \in {sol \in proj : Returned(sol)}}
        \cup {<<odeArgs.SIR, odeArgs.bgt, sol>> : sol \in {sol \in odeRet : Returned(sol)}}

Moves(sol) == \E i \in 1..Len(sol.t) : sol.I[i] # sol.I[1]

\* C1: in every trajectory returned by solveode, S(t) + I(t) + R(t) equals
\* S0 + I0 + R0 at every sampled t, and the derivatives that sir_ode returns
\* at each sampled state sum to zero.
C1_Conservation ==
    \A c \in Calls :
        LET SIR == c[1]
            bgt == c[2]
            sol == c[3]
        IN  \A i \in 1..Len(sol.t) :
               /\ sol.S[i] + sol.I[i] + sol.R[i] = SIR[1] + SIR[2] + SIR[3]
               /\ LET d == sir_ode(sol.t[i], <<sol.S[i], sol.I[i], sol.R[i]>>, bgt[1], bgt[2])
                  IN  IsFinite(d) => d[1] + d[2] + d[3] = 0

\* a trajectory of three samples or more in which S, I and R all change
C1_Witness ==
    \E c \in Calls :
        /\ Len(c[3].t) >= 3
        /\ c[3].S[2] # c[3].S[1]
        /\ c[3].I[3] # c[3].I[2]
        /\ c[3].R[2] # c[3].R[1]

\* C4 (as claimed): solveode returns t, S, I, R with exactly tmax entries
\* each, and t = 0, 1, ..., tmax-1.
C4_Length ==
    \A c \in Calls :
        LET tmax == c[2][3]
            sol == c[3]
        IN  /\ Len(sol.t) = tmax
            /\ Len(sol.S) = tmax
            /\ Len(sol.I) = tmax
            /\ Len(sol.R) = tmax
            /\ \A i \in 1..Len(sol.t) : sol.t[i] = i - 1

\* C5: if I0 = 0 the returned trajectory has I(t) = 0, S(t) = S0 and
\* R(t) = R0 at every sampled t.
C5_ZeroInfected ==
    \A c \in Calls :
        c[1][2] = 0 =>
            \A i \in 1..Len(c[3].t) :
                c[3].I[i] = 0 /\ c[3].S[i] = c[1][1] /\ c[3].R[i] = c[1][3]

\* a trajectory from I0 = 0 with S0, R0, beta and gamma all non-zero
C5_Witness ==
    \E c \in Calls :
        /\ c[1][2] = 0 /\ c[1][1] # 0 /\ c[1][3] # 0
        /\ c[2][1] # 0 /\ c[2][2] # 0
        /\ Len(c[3].t) >= 3

\* C7 (as claimed): in every trajectory returned by solveode,
\* R(t+1) >= R(t) for every consecutive pair of samples.
C7_RNonDecreasing ==
    \A sol \in Trajectories :
        \A i \in 1..(Len(sol.t) - 1) : sol.R[i + 1] >= sol.R[i]

\* C2: when the minimizer exhausts its iteration budget without declaring
\* convergence, the run ends with exit status 2: no fit result exists,
\* nothing has been printed, no projection has run and no figure exists.
C2_FailureExits ==
    /\ (nit >= MaxIter /\ pc \notin {"minimize", "raised"}) =>
           pc = "exited" /\ exitCode = {ExitNoConvergence}
    /\ exitCode = {ExitNoConvergence} =>
           /\ pc = "exited"
           /\ results = {}
           /\ ~printed
           /\ proj = {}
           /\ plots = {}

\* the run has ended with status 2 although a best point had been found
C2_Witness ==
    /\ exitCode = {ExitNoConvergence}
    /\ nit = MaxIter
    /\ \E b \in best : b.fun = 0

C8_FixedI0R0 ==
    /\ \A e \in lastEval \cup best :
           /\ e.SIR = <<e.x[3], C[1], 0>>
           /\ e.bgt = <<e.x[1], e.x[2], Len(C)>>
           /\ e.obs = C
    /\ lastEval # {} => parmArray = <<C[1], 0>> \o C
    /\ \A r \in results :
           /\ r.I0 = C[1]
           /\ r.R0 = 0
           /\ \E b \in best : <<r.beta, r.gamma, r.S>> = b.x

\* parmest has returned a point other than the initial guess, for a series
\* whose first case number is not zero
C8_Witness ==
    /\ pc = "fitted"
    /\ C[1] > 0
    /\ \E r \in results : r.beta # betaGuess /\ r.S # r.I0

C10_Positive ==
    /\ \A e \in lastEval : e.x[1] > 0 /\ e.x[2] > 0 /\ e.x[3] > 0
    /\ \A r \in results : r.beta > 0 /\ r.gamma > 0 /\ r.S > 0

====
